---- MODULE Spec2Model ----
(***************************************************************************)
(* The falling-sand world of src/src/world.rs and its driver in            *)
(* src/src/main.rs.                                                        *)
(*                                                                         *)
(* Numbers.  f32 velocities are fixed-point integers counting 1/Scale of a *)
(* cell per tick (GRAVITY.y = -0.3 is -6, AIR_FRICTION = 0.25 is 5), and   *)
(* normalize() is rounded to the nearest unit.  u32/i32 are two's          *)
(* complement words of IntBits bits, so that the conversions and the       *)
(* subtraction overflow of path() happen on paths short enough to          *)
(* enumerate.  The grid side WORLD_SIZE is scaled down from 100.           *)
(*                                                                         *)
(* Limits of the abstraction.  path() rounds i * shorter / longer exactly, *)
(* half away from zero; the f32 product i * (shorter / longer) lands on    *)
(* the other side of a tie only when the longer side is 22 or more, above  *)
(* every side enumerated here.  A Force sitting exactly on the cell it     *)
(* pushes (normalize() of the zero vector, NaN in f32) is not among the    *)
(* inputs.  set_cell is called by the caller only before the first update. *)
(***************************************************************************)
EXTENDS Integers, Sequences, FiniteSets, TLC

\* ------------------------------------------------------------------ bounds
\* side of the grid (the source compiles 100)
WORLD_SIZE == 3
\* width in bits of the words standing for u32 and i32
IntBits == 5
\* most particles the driver or the API calls put on the grid
MaxSand == 3
\* most particles the caller sets up with a velocity other than (0,0)
MaxMoving == 1
\* most calls of World::update in one run
MaxUpdates == 2

\* ------------------------------------------------------------ fixed point
Scale == 4 * 5
GRAVITY == [x |-> 0, y |-> -((3 * Scale) \div 10)]
AIR_FRICTION == Scale \div 4

Vec(a, b) == [x |-> a, y |-> b]
zeros == Vec(0, 0)
VAdd(a, b) == Vec(a.x + b.x, a.y + b.y)
VSub(a, b) == Vec(a.x - b.x, a.y - b.y)
magnitude_squared(v) == (v.x * v.x) + (v.y * v.y)
AbsI(n) == IF n < 0 THEN -n ELSE n
SignI(n) == IF n < 0 THEN -1 ELSE IF n > 0 THEN 1 ELSE 0
MaxI(a, b) == IF a > b THEN a ELSE b
MinI(a, b) == IF a < b THEN a ELSE b

\* round(num / sqrt(den2)) to the nearest integer, for num >= 0 and den2 > 0
RoundDivSqrt(num, den2) ==
    CHOOSE r \in 0..num :
        /\ (r = 0) \/ ((2 * r - 1) * (2 * r - 1) * den2 <= 4 * num * num)
        /\ 4 * num * num < (2 * r + 1) * (2 * r + 1) * den2

\* v.normalize() * k
normalize_times(v, k) ==
    LET m2 == magnitude_squared(v)
    IN  Vec(SignI(v.x) * RoundDivSqrt(k * AbsI(v.x), m2),
            SignI(v.y) * RoundDivSqrt(k * AbsI(v.y), m2))

\* ---------------------------------------------------------- machine words
TwoPow == 2 ^ IntBits
U32_MAX == TwoPow - 1
I32_MAX == (TwoPow \div 2) - 1
I32_MIN == -(TwoPow \div 2)

\* u32 as i32
as_i32(u) == IF u > I32_MAX THEN u - TwoPow ELSE u
\* i32 as u32
as_u32(i) == i % TwoPow
\* the result of an i32 operation whose exact value is n, overflow checks off
wrap_i32(n) == ((n - I32_MIN) % TwoPow) + I32_MIN
overflows(n) == n < I32_MIN \/ n > I32_MAX
\* f32 as u32 and f32 as i32, for an integral f: saturating
f32_as_u32(f) == IF f < 0 THEN 0 ELSE IF f > U32_MAX THEN U32_MAX ELSE f
f32_as_i32(f) == IF f < I32_MIN THEN I32_MIN ELSE IF f > I32_MAX THEN I32_MAX ELSE f

\* ------------------------------------------------------------ coordinates
difference(a, b) == Vec(as_i32(a.x) - as_i32(b.x), as_i32(a.y) - as_i32(b.y))
in_bounds(c) == c.x < WORLD_SIZE /\ c.y < WORLD_SIZE

unit_neighbors(u) ==
    IF u = Vec(0, 1) THEN <<Vec(1, 1), Vec(-1, 1)>>
    ELSE IF u = Vec(1, 0) THEN <<Vec(1, 1), Vec(1, -1)>>
    ELSE IF u = Vec(1, 1) THEN <<Vec(1, 0), Vec(0, 1)>>
    ELSE IF u = Vec(-1, 1) THEN <<Vec(-1, 0), Vec(0, 1)>>
    ELSE IF u = Vec(0, -1) THEN <<Vec(-1, -1), Vec(1, -1)>>
    ELSE IF u = Vec(-1, 0) THEN <<Vec(-1, -1), Vec(-1, -1)>>
    ELSE IF u = Vec(-1, -1) THEN <<Vec(-1, 0), Vec(0, -1)>>
    ELSE IF u = Vec(1, -1) THEN <<Vec(1, 0), Vec(0, -1)>>
    ELSE <<>>

\* ------------------------------------------------------------------- path
\* (slope * i as f32).round() as i32, slope = shorter / longer or 0.0
shorter_side_increase(shorter, longer, i) ==
    IF shorter = 0 \/ longer = 0 THEN 0
    ELSE LET num == 2 * AbsI(shorter) * i
             den == 2 * AbsI(longer)
             mag == (num + AbsI(longer)) \div den
         IN  f32_as_i32(SignI(shorter) * SignI(longer) * mag)

\* i32::abs: overflow checks off, abs(i32::MIN) is i32::MIN
abs_i32(n) == IF n = I32_MIN THEN I32_MIN ELSE AbsI(n)

\* path_step counting from 0: the loop as 0..longer_side_length - 1
path_step_from_zero(x1, y1, x_modifier, y_modifier, x_diff_is_larger, shorter, longer, i) ==
    LET ssi == shorter_side_increase(shorter, longer, i - 1)
        x_increase == IF x_diff_is_larger THEN i - 1 ELSE ssi
        y_increase == IF x_diff_is_larger THEN ssi ELSE i - 1
    IN  [ovf |-> FALSE,
         c |-> Vec(as_u32(wrap_i32(x1 + (x_increase * x_modifier))),
                   as_u32(wrap_i32(y1 + (y_increase * y_modifier))))]

\* path_step with the two branches of x_diff_is_larger exchanged
path_step_swapped(x1, y1, x_modifier, y_modifier, x_diff_is_larger, shorter, longer, i) ==
    LET ssi == shorter_side_increase(shorter, longer, i)
        x_increase == IF x_diff_is_larger THEN ssi ELSE i
        y_increase == IF x_diff_is_larger THEN i ELSE ssi
    IN  [ovf |-> FALSE,
         c |-> Vec(as_u32(wrap_i32(x1 + (x_increase * x_modifier))),
                   as_u32(wrap_i32(y1 + (y_increase * y_modifier))))]

\* the i-th push of path's loop: the cell, and whether its arithmetic overflowed
path_step(x1, y1, x_modifier, y_modifier, x_diff_is_larger, shorter, longer, i) ==
    LET ssi == shorter_side_increase(shorter, longer, i)
        x_increase == IF x_diff_is_larger THEN i ELSE ssi
        y_increase == IF x_diff_is_larger THEN ssi ELSE i
        y_prod == y_increase * y_modifier
        x_prod == x_increase * x_modifier
        current_y == y1 + wrap_i32(y_prod)
        current_x == x1 + wrap_i32(x_prod)
    IN  [ovf |-> \/ overflows(y_prod) \/ overflows(x_prod)
                 \/ overflows(current_y) \/ overflows(current_x),
         c |-> Vec(as_u32(wrap_i32(current_x)), as_u32(wrap_i32(current_y)))]

\* path(start, end): the cells pushed, or a panic when overflow checks are on
\* (debug build) and one of the i32 operations overflows
path(start, end, overflow_checks) ==
    IF start = end THEN [panic |-> FALSE, steps |-> <<>>]
    ELSE
    LET matrix_x1 == as_i32(start.x)
        matrix_y1 == as_i32(start.y)
        matrix_x2 == as_i32(end.x)
        matrix_y2 == as_i32(end.y)
        x_diff == wrap_i32(matrix_x1 - matrix_x2)
        y_diff == wrap_i32(matrix_y1 - matrix_y2)
        x_abs == abs_i32(x_diff)
        y_abs == abs_i32(y_diff)
        x_diff_is_larger == x_abs > y_abs
        x_modifier == IF x_diff < 0 THEN 1 ELSE -1
        y_modifier == IF y_diff < 0 THEN 1 ELSE -1
        longer_side_length == MaxI(x_abs, y_abs)
        shorter_side_length == MinI(x_abs, y_abs)
        n == MaxI(longer_side_length, 0)
        st(i) == path_step(matrix_x1, matrix_y1, x_modifier, y_modifier,
                           x_diff_is_larger, shorter_side_length,
                           longer_side_length, i)
        ovf == \/ overflows(matrix_x1 - matrix_x2)
               \/ overflows(matrix_y1 - matrix_y2)
               \/ x_diff = I32_MIN
               \/ y_diff = I32_MIN
               \/ \E i \in 1..n : st(i).ovf
    IN  IF overflow_checks /\ ovf
        THEN [panic |-> TRUE, steps |-> <<>>]
        ELSE [panic |-> FALSE, steps |-> [i \in 1..n |-> st(i).c]]

\* ------------------------------------------------------------------ world
Air == [tag |-> "Air"]
Sand(v) == [tag |-> "Sand", v |-> v]
None == [some |-> FALSE]
Some(c) == [some |-> TRUE, val |-> c]

Index == 0..(WORLD_SIZE - 1)
Coords == {Vec(x, y) : x \in Index, y \in Index}
\* World::default(): cells[y][x], all Air
default_cells == [y \in Index |-> [x \in Index |-> Air]]

\* get_cell indexing cells[x][y]
get_cell_transposed(cs, c) ==
    IF c.x \in DOMAIN cs
    THEN (IF c.y \in DOMAIN cs[c.x] THEN [some |-> TRUE, val |-> cs[c.x][c.y]]
          ELSE [some |-> FALSE])
    ELSE [some |-> FALSE]

\* get_cell that clamps the index to the last row and column
get_cell_clamped(cs, c) ==
    [some |-> TRUE,
     val |-> cs[MinI(c.y, WORLD_SIZE - 1)][MinI(c.x, WORLD_SIZE - 1)]]

get_cell(cs, c) ==
    IF c.y \in DOMAIN cs
    THEN (IF c.x \in DOMAIN cs[c.y] THEN Some(cs[c.y][c.x]) ELSE None)
    ELSE None

\* set_cell indexes unchecked: out of range it panics and writes nothing
set_cell(cs, c, cell) ==
    IF c.y \in DOMAIN cs /\ c.x \in DOMAIN cs[c.y]
    THEN [panic |-> FALSE, cells |-> [cs EXCEPT ![c.y][c.x] = cell]]
    ELSE [panic |-> TRUE, cells |-> cs]

\* swap_cells that writes a into b and forgets to write b into a
swap_cells_overwriting(cs, a_coordinate, b_coordinate) ==
    LET a == get_cell(cs, a_coordinate)
        b == get_cell(cs, b_coordinate)
    IN  IF a.some /\ b.some
        THEN set_cell(cs, b_coordinate, a.val)
        ELSE [panic |-> FALSE, cells |-> cs]

\* swap_cells that reads a through get_cell and indexes b unchecked
swap_cells_first_checked(cs, a_coordinate, b_coordinate) ==
    LET a == get_cell(cs, a_coordinate)
        b == get_cell(cs, b_coordinate)
    IN  IF a.some
        THEN (IF b.some
              THEN set_cell(set_cell(cs, a_coordinate, b.val).cells, b_coordinate, a.val)
              ELSE set_cell(cs, b_coordinate, a.val))
        ELSE [panic |-> FALSE, cells |-> cs]

swap_cells(cs, a_coordinate, b_coordinate) ==
    LET a == get_cell(cs, a_coordinate)
        b == get_cell(cs, b_coordinate)
    IN  IF a.some /\ b.some
        THEN set_cell(set_cell(cs, a_coordinate, b.val).cells, b_coordinate, a.val)
        ELSE [panic |-> FALSE, cells |-> cs]

\* the coordinates swap_cells hands to set_cell, in the order of the calls
swap_writes(cs, a_coordinate, b_coordinate) ==
    IF get_cell(cs, a_coordinate).some /\ get_cell(cs, b_coordinate).some
    THEN <<a_coordinate, b_coordinate>>
    ELSE <<>>

push_color(cell) ==
    IF cell.tag = "Air" THEN <<0, 0, 255, 255>> ELSE <<255, 255, 0, 255>>

RECURSIVE row_pixels(_, _)
\* the pushes of one row, from its cell x on
row_pixels(row, x) ==
    IF x \notin DOMAIN row THEN <<>>
    ELSE push_color(row[x]) \o row_pixels(row, x + 1)

RECURSIVE pixels_from_flipped(_, _)
\* pixels with the rows pushed last row first
pixels_from_flipped(cs, y) ==
    IF y \notin DOMAIN cs THEN <<>>
    ELSE pixels_from_flipped(cs, y + 1) \o row_pixels(cs[y], 0)

RECURSIVE pixels_from(_, _)
\* the pushes of World::pixels, from row y on
pixels_from(cs, y) ==
    IF y \notin DOMAIN cs THEN <<>>
    ELSE row_pixels(cs[y], 0) \o pixels_from(cs, y + 1)

pixels(cs) == pixels_from(cs, 0)

SandCoords(cs) == {c \in Coords : cs[c.y][c.x].tag = "Sand"}
SandCount(cs) == Cardinality(SandCoords(cs))

\* --------------------------------------------------------------- velocity
\* the band with its outer end excluded
force_in_range_exclusive(force, distance_squared) ==
    /\ distance_squared >= force.min_distance_squared
    /\ distance_squared < force.max_distance_squared

\* a force takes part when its squared distance lies in [min, max]
force_in_range(force, distance_squared) ==
    /\ distance_squared >= force.min_distance_squared
    /\ distance_squared <= force.max_distance_squared

\* difference.normalize() * (force.strength / distance_squared)
force_push(force, coordinate) ==
    LET diff == VSub(force.position, coordinate)
        d2 == magnitude_squared(diff)
        part(c) == SignI(c) * SignI(force.strength)
                       * RoundDivSqrt(AbsI(force.strength) * AbsI(c), d2 * d2 * d2)
    IN  Vec(part(diff.x), part(diff.y))

RECURSIVE apply_forces(_, _, _, _)
\* the loop over forces.iter(), from force number k on
apply_forces(coordinate, velocity, forces, k) ==
    IF k > Len(forces) THEN velocity
    ELSE LET force == forces[k]
             distance_squared == magnitude_squared(VSub(force.position, coordinate))
         IN  apply_forces(coordinate,
                          IF force_in_range(force, distance_squared)
                          THEN VAdd(velocity, force_push(force, coordinate))
                          ELSE velocity,
                          forces, k + 1)

friction(velocity) ==
    IF magnitude_squared(velocity) > AIR_FRICTION * AIR_FRICTION
    THEN VSub(velocity, normalize_times(velocity, AIR_FRICTION))
    ELSE velocity

\* forces and friction, without the addition of GRAVITY
updated_velocity_no_gravity(coordinate, velocity, forces) ==
    friction(apply_forces(coordinate, velocity, forces, 1))

\* gravity, forces and friction
updated_velocity(coordinate, velocity, forces) ==
    friction(apply_forces(coordinate, VAdd(velocity, GRAVITY), forces, 1))

\* floor(coordinate + velocity), clamped at 0 with that component zeroed
destination_of(coordinate, velocity) ==
    LET x == ((coordinate.x * Scale) + velocity.x) \div Scale
        y == ((coordinate.y * Scale) + velocity.y) \div Scale
    IN  [velocity |-> Vec(IF x < 0 THEN 0 ELSE velocity.x,
                          IF y < 0 THEN 0 ELSE velocity.y),
         destination |-> Vec(f32_as_u32(MaxI(x, 0)), f32_as_u32(MaxI(y, 0)))]

\* ------------------------------------------------------------ update_cell
\* coordinate + neighbor through i32 and back to u32
neighbor_of(coordinate, neighbor) ==
    Vec(as_u32(wrap_i32(as_i32(coordinate.x) + neighbor.x)),
        as_u32(wrap_i32(as_i32(coordinate.y) + neighbor.y)))

\* the candidate taken without reading the cell
neighbor_free_unread(cs, neighbor_coordinate) == in_bounds(neighbor_coordinate)

\* the candidate is taken when it is in bounds and reads Air
neighbor_free(cs, neighbor_coordinate) ==
    ~(~in_bounds(neighbor_coordinate) \/ get_cell(cs, neighbor_coordinate) # Some(Air))

\* the blocked branch that stops without the set_cell of Vector2::zeros()
blocked_unzeroed(cs, coordinate, step_coordinate, coin, overflow_checks, entered, i, writes) ==
    LET unit == difference(step_coordinate, coordinate)
        found == unit_neighbors(Vec(wrap_i32(unit.x), wrap_i32(unit.y)))
        neighbors == IF found # <<>> /\ coin THEN <<found[2], found[1]>> ELSE found
        cand == [k \in DOMAIN neighbors |-> neighbor_of(coordinate, neighbors[k])]
        free == {k \in DOMAIN neighbors : neighbor_free(cs, cand[k])}
        base == [panic |-> FALSE, cells |-> cs, how |-> "zeroed", at |-> coordinate,
                 entered |-> entered, blocked_at |-> i, unit |-> unit,
                 candidates |-> cand, flipped |-> (found # <<>> /\ coin),
                 writes |-> writes]
    IN  IF free # {}
        THEN LET k == CHOOSE j \in free : \A m \in free : j <= m
             IN  [base EXCEPT !.cells = swap_cells(cs, coordinate, cand[k]).cells,
                              !.how = "redirected", !.at = cand[k],
                              !.entered = Append(entered, cand[k]),
                              !.writes = writes \o swap_writes(cs, coordinate, cand[k])]
        ELSE base

\* the blocked branch of the walk: the step cell holds Sand.  coin is the
\* outcome of gen_bool(0.5); entered is the list of cells entered so far and
\* writes the coordinates set_cell was called with so far
blocked(cs, coordinate, step_coordinate, coin, overflow_checks, entered, i, writes) ==
    LET unit == difference(step_coordinate, coordinate)
        found == unit_neighbors(Vec(wrap_i32(unit.x), wrap_i32(unit.y)))
        neighbors == IF found # <<>> /\ coin THEN <<found[2], found[1]>> ELSE found
        cand == [k \in DOMAIN neighbors |-> neighbor_of(coordinate, neighbors[k])]
        free == {k \in DOMAIN neighbors : neighbor_free(cs, cand[k])}
        ovf == \/ overflows(unit.x) \/ overflows(unit.y)
               \/ \E k \in DOMAIN neighbors :
                     \/ overflows(as_i32(coordinate.x) + neighbors[k].x)
                     \/ overflows(as_i32(coordinate.y) + neighbors[k].y)
        base == [panic |-> FALSE, cells |-> cs, how |-> "zeroed", at |-> coordinate,
                 entered |-> entered, blocked_at |-> i, unit |-> unit,
                 candidates |-> cand, flipped |-> (found # <<>> /\ coin),
                 writes |-> writes]
    IN  IF overflow_checks /\ ovf
        THEN [base EXCEPT !.panic = TRUE, !.how = "panic"]
        ELSE IF free # {}
        THEN LET k == CHOOSE j \in free : \A m \in free : j <= m
             IN  [base EXCEPT !.cells = swap_cells(cs, coordinate, cand[k]).cells,
                              !.how = "redirected", !.at = cand[k],
                              !.entered = Append(entered, cand[k]),
                              !.writes = writes \o swap_writes(cs, coordinate, cand[k])]
        ELSE LET w == set_cell(cs, coordinate, Sand(zeros))
             IN  [base EXCEPT !.panic = w.panic, !.cells = w.cells,
                              !.how = IF w.panic THEN "panic" ELSE "zeroed",
                              !.writes = Append(writes, coordinate)]

RECURSIVE walk_one_short(_, _, _, _, _, _, _, _)
\* the walk that leaves out the last cell of the path
walk_one_short(cs, coordinate, steps, i, coin, overflow_checks, entered, writes) ==
    IF i >= Len(steps)
    THEN [panic |-> FALSE, cells |-> cs, how |-> "arrived", at |-> coordinate,
          entered |-> entered, blocked_at |-> 0, unit |-> zeros,
          candidates |-> <<>>, flipped |-> FALSE, writes |-> writes]
    ELSE LET step_coordinate == steps[i]
             got == get_cell(cs, step_coordinate)
         IN  IF got.some /\ got.val.tag = "Sand"
             THEN blocked(cs, coordinate, step_coordinate, coin, overflow_checks,
                          entered, i, writes)
             ELSE walk_one_short(swap_cells(cs, coordinate, step_coordinate).cells,
                       step_coordinate, steps, i + 1, coin, overflow_checks,
                       IF got.some THEN Append(entered, step_coordinate) ELSE entered,
                       writes \o swap_writes(cs, coordinate, step_coordinate))

RECURSIVE walk_through(_, _, _, _, _, _, _, _)
\* the walk without the test for an occupied cell: it swaps with whatever
\* the path cell holds
walk_through(cs, coordinate, steps, i, coin, overflow_checks, entered, writes) ==
    IF i > Len(steps)
    THEN [panic |-> FALSE, cells |-> cs, how |-> "arrived", at |-> coordinate,
          entered |-> entered, blocked_at |-> 0, unit |-> zeros,
          candidates |-> <<>>, flipped |-> FALSE, writes |-> writes]
    ELSE LET step_coordinate == steps[i]
             got == get_cell(cs, step_coordinate)
         IN  walk_through(swap_cells(cs, coordinate, step_coordinate).cells,
                       step_coordinate, steps, i + 1, coin, overflow_checks,
                       IF got.some THEN Append(entered, step_coordinate) ELSE entered,
                       writes \o swap_writes(cs, coordinate, step_coordinate))

RECURSIVE walk(_, _, _, _, _, _, _, _)
\* the for loop over path(..).drain(..), from step i on
walk(cs, coordinate, steps, i, coin, overflow_checks, entered, writes) ==
    IF i > Len(steps)
    THEN [panic |-> FALSE, cells |-> cs, how |-> "arrived", at |-> coordinate,
          entered |-> entered, blocked_at |-> 0, unit |-> zeros,
          candidates |-> <<>>, flipped |-> FALSE, writes |-> writes]
    ELSE LET step_coordinate == steps[i]
             got == get_cell(cs, step_coordinate)
         IN  IF got.some /\ got.val.tag = "Sand"
             THEN blocked(cs, coordinate, step_coordinate, coin, overflow_checks,
                          entered, i, writes)
             ELSE walk(swap_cells(cs, coordinate, step_coordinate).cells,
                       step_coordinate, steps, i + 1, coin, overflow_checks,
                       IF got.some THEN Append(entered, step_coordinate) ELSE entered,
                       writes \o swap_writes(cs, coordinate, step_coordinate))

\* update_cell(coordinate, cell, forces): the grid afterwards (or a panic) and
\* a record of what the call did
update_cell(cs, coordinate, cell, forces, coin, overflow_checks) ==
    LET skip == [panic |-> FALSE, cells |-> cs, how |-> "air", at |-> coordinate,
                 entered |-> <<>>, blocked_at |-> 0, unit |-> zeros,
                 candidates |-> <<>>, flipped |-> FALSE, writes |-> <<>>]
        d == destination_of(coordinate, updated_velocity(coordinate, cell.v, forces))
        velocity == d.velocity
        destination == d.destination
        w == set_cell(cs, coordinate, Sand(velocity))
        p == path(coordinate, destination, overflow_checks)
        r == walk(w.cells, coordinate, p.steps, 1, coin, overflow_checks, <<>>,
                  <<coordinate>>)
        mine == [velocity |-> velocity, destination |-> destination, steps |-> <<>>]
    IN  IF cell.tag # "Sand"
        THEN skip @@ [velocity |-> zeros, destination |-> coordinate, steps |-> <<>>]
        ELSE IF w.panic
        THEN [skip EXCEPT !.panic = TRUE, !.how = "panic",
                          !.writes = <<coordinate>>] @@ mine
        ELSE IF destination = coordinate
        THEN [skip EXCEPT !.cells = w.cells, !.how = "stayed",
                          !.writes = <<coordinate>>] @@ mine
        ELSE IF p.panic
        THEN [skip EXCEPT !.panic = TRUE, !.cells = w.cells, !.how = "panic",
                          !.writes = <<coordinate>>] @@ mine
        ELSE r @@ [mine EXCEPT !.steps = p.steps]

\* ------------------------------------------------------------------ state
VARIABLES
    cells,            \* World.cells: cells[y][x]
    pc,               \* "setup", "idle", "update" (inside World::update), "panic"
    cursor,           \* the coordinate World::update visits next
    forces,           \* the force list of the running update call
    overflow_checks,  \* the build: TRUE panics on integer overflow, FALSE wraps
    ev,               \* what the last operation was given, read and returned
    updates,          \* how many update calls were entered
    call              \* a single call of a pure function: its input and output

vars == <<cells, pc, cursor, forces, overflow_checks, ev, updates, call>>

\* velocities the callers write into cells, in 1/Scale cells per tick
VelIn ==
    { zeros, Vec(0, 3 * Scale), Vec(-(2 * Scale), 0), Vec(2 * Scale, 2 * Scale),
      Vec(((TwoPow \div 2) * Scale) + AIR_FRICTION, 0),
      Vec(0, TwoPow * Scale) }

\* one attractor in the middle of the grid; its dead zone covers its own cell
TheForce ==
    [position |-> Vec(WORLD_SIZE \div 2, WORLD_SIZE \div 2), strength |-> 2 * Scale,
     min_distance_squared |-> 1, max_distance_squared |-> 2]
ForceLists == {<<>>, <<TheForce>>}

\* coordinates handed to get_cell: the grid, its edge and the far corner
ProbeCoords ==
    Coords \cup {Vec(WORLD_SIZE, 0), Vec(0, WORLD_SIZE), Vec(U32_MAX, U32_MAX)}

\* the driver's spawn point and spawn velocities (gen_range(-2.0..=0.0))
spawn_coordinate == Vec(WORLD_SIZE \div 2, WORLD_SIZE - 1)
SpawnVel == {Vec(0, 0), Vec(0, -(2 * Scale))}

Init ==
    /\ cells = default_cells
    /\ pc = "setup"
    /\ cursor = Vec(0, 0)
    /\ forces = <<>>
    /\ overflow_checks \in BOOLEAN
    /\ ev = [op |-> "new"]
    /\ updates = 0
    /\ call = [fn |-> "none"]

\* a caller writes a particle into the fresh world (World::set_cell)
SetCell(c, v) ==
    /\ pc = "setup"
    /\ LET w == set_cell(cells, c, Sand(v))
       IN  /\ SandCount(w.cells) <= MaxSand
           /\ Cardinality({m \in SandCoords(w.cells) : w.cells[m.y][m.x].v # zeros})
                  <= MaxMoving
           /\ cells' = w.cells
    /\ ev' = [op |-> "set_cell", coordinate |-> c]
    /\ UNCHANGED <<pc, cursor, forces, overflow_checks, updates, call>>

\* World::get_cell from outside an update
GetCell(c) ==
    /\ pc \in {"setup", "idle"}
    /\ ev' = [op |-> "get_cell", coordinate |-> c, pre |-> cells,
              ret |-> get_cell(cells, c)]
    /\ UNCHANGED <<cells, pc, cursor, forces, overflow_checks, updates, call>>

\* World::pixels, as the renderer calls it
Pixels ==
    /\ pc \in {"setup", "idle"}
    /\ ev' = [op |-> "pixels", pre |-> cells, ret |-> pixels(cells)]
    /\ UNCHANGED <<cells, pc, cursor, forces, overflow_checks, updates, call>>

\* the place of a coordinate in the order of the loops of World::update
sweep_index(c) == (c.y * WORLD_SIZE) + c.x

\* per cell, for the particle now in it: how often update_cell was called on
\* it in this update call, and how many of those calls moved it to a cell
\* later, or earlier, in the order of the sweep
no_updates == [c \in Coords |-> [n |-> 0, later |-> 0, earlier |-> 0]]
count_update(upd, from, to) ==
    LET old == upd[from]
        new == [n |-> old.n + 1,
                later |-> old.later + (IF sweep_index(to) > sweep_index(from) THEN 1 ELSE 0),
                earlier |-> old.earlier + (IF sweep_index(to) < sweep_index(from) THEN 1 ELSE 0)]
    IN  [c \in Coords |-> IF c = to THEN new
                          ELSE IF c = from THEN [n |-> 0, later |-> 0, earlier |-> 0]
                          ELSE upd[c]]

\* World::update is entered with a force list
Update(fs) ==
    /\ pc \in {"setup", "idle"}
    /\ pc' = "update"
    /\ cursor' = Vec(0, 0)
    /\ forces' = fs
    /\ ev' = [op |-> "update", pre |-> cells, upd |-> no_updates]
    /\ updates < MaxUpdates
    /\ updates' = updates + 1
    /\ UNCHANGED <<cells, overflow_checks, call>>

\* the spawn written whatever the spawn cell holds
spawn_particle_unchecked(cs, v) ==
    [spawned |-> TRUE, cells |-> set_cell(cs, spawn_coordinate, Sand(v)).cells]

\* the driver's spawn: a particle is written when the spawn cell reads Air
spawn_particle(cs, v) ==
    IF get_cell(cs, spawn_coordinate) = Some(Air)
    THEN [spawned |-> TRUE, cells |-> set_cell(cs, spawn_coordinate, Sand(v)).cells]
    ELSE [spawned |-> FALSE, cells |-> cs]

\* the driver's world step: spawn when the spawn cell reads Air, then update
\* with the forces of the worm's segments
Tick(v) ==
    /\ pc \in {"setup", "idle"}
    /\ \E s \in {spawn_particle(cells, v)} :
           /\ SandCount(s.cells) <= MaxSand
           /\ cells' = s.cells
           /\ ev' = [op |-> "tick", pre |-> cells, spawned |-> s.spawned,
                     upd |-> no_updates]
    /\ pc' = "update"
    /\ cursor' = Vec(0, 0)
    /\ forces' = <<TheForce>>
    /\ updates < MaxUpdates
    /\ updates' = updates + 1
    /\ UNCHANGED <<overflow_checks, call>>

\* the cursor after coordinate, with the loop over y inside the loop over x
next_cursor_x_outer(c) ==
    IF c.y + 1 < WORLD_SIZE THEN Vec(c.x, c.y + 1)
    ELSE IF c.x + 1 < WORLD_SIZE THEN Vec(c.x + 1, 0)
    ELSE Vec(0, WORLD_SIZE)

\* the cursor after coordinate in the sweep: x inside y
next_cursor(c) ==
    IF c.x + 1 < WORLD_SIZE THEN Vec(c.x + 1, c.y) ELSE Vec(0, c.y + 1)

\* one iteration of the loops of World::update: update_cell on the cursor
UpdateCell(coin) ==
    /\ pc = "update"
    /\ \E r \in {update_cell(cells, cursor, cells[cursor.y][cursor.x], forces, coin,
                             overflow_checks)} :
           /\ cells' = r.cells
           /\ ev' = [op |-> "update_cell", coordinate |-> cursor, pre |-> cells,
                     cell |-> cells[cursor.y][cursor.x],
                     nth |-> IF ev.op = "update_cell" THEN ev.nth + 1 ELSE 1,
                     upd |-> IF cells[cursor.y][cursor.x].tag = "Sand"
                             THEN count_update(ev.upd, cursor,
                                      IF r.entered = <<>> THEN cursor
                                      ELSE r.entered[Len(r.entered)])
                             ELSE ev.upd,
                     r |-> [panic |-> r.panic, how |-> r.how, at |-> r.at,
                            entered |-> r.entered, blocked_at |-> r.blocked_at,
                            unit |-> r.unit, candidates |-> r.candidates,
                            flipped |-> r.flipped, velocity |-> r.velocity,
                            destination |-> r.destination, steps |-> r.steps,
                            writes |-> r.writes]]
           /\ pc' = IF r.panic THEN "panic"
                    ELSE IF next_cursor(cursor).y >= WORLD_SIZE THEN "idle"
                    ELSE "update"
           /\ cursor' = IF r.panic THEN cursor ELSE next_cursor(cursor)
    /\ UNCHANGED <<forces, overflow_checks, updates, call>>

Next ==
    \/ \E c \in Coords, v \in VelIn : SetCell(c, v)
    \/ \E fs \in ForceLists : Update(fs)
    \/ \E v \in SpawnVel : Tick(v)
    \/ \E coin \in BOOLEAN : UpdateCell(coin)

\* the simulation: a world set up by its caller, then stepped
Spec == Init /\ [][Next]_vars

\* -------------------------------------------------- the grid's accessors
\* coordinates handed to swap_cells: cells of the grid, and places outside it
SwapCoords ==
    {Vec(0, 0), Vec(1, 0), Vec(WORLD_SIZE - 1, WORLD_SIZE - 1),
     Vec(WORLD_SIZE, 0), Vec(0, WORLD_SIZE), Vec(U32_MAX, U32_MAX)}

\* World::swap_cells from outside an update.  again says that the call before
\* this one swapped the same two coordinates; before is the grid that call found
SwapCells(a, b) ==
    /\ pc \in {"setup", "idle"}
    /\ \E w \in {swap_cells(cells, a, b)} :
           /\ cells' = w.cells
           /\ pc' = IF w.panic THEN "panic" ELSE pc
           /\ LET again == /\ ev.op = "swap_cells"
                           /\ ev.a = a
                           /\ ev.b = b
              IN  ev' = [op |-> "swap_cells", a |-> a, b |-> b, pre |-> cells,
                         panic |-> w.panic, again |-> again,
                         before |-> IF again THEN ev.pre ELSE cells]
    /\ UNCHANGED <<cursor, forces, overflow_checks, updates, call>>

NextApi ==
    \/ \E c \in Coords, v \in VelIn : SetCell(c, v)
    \/ \E c \in ProbeCoords : GetCell(c)
    \/ Pixels

\* the grid alone: written by its caller, read by get_cell and pixels
SpecApi == Init /\ [][NextApi]_vars

\* ------------------------------------------------------------ swap_cells
\* most particles on the grids handed to swap_cells, and their velocities
MaxSwapSand == 2
SwapVel == {zeros, Vec(0, 2 * Scale)}

NextSwap ==
    \/ \E c \in Coords, v \in SwapVel :
           SetCell(c, v) /\ SandCount(cells') <= MaxSwapSand
    \/ \E a \in SwapCoords, b \in SwapCoords : SwapCells(a, b)

\* the grid written by its caller and rearranged by swap_cells
SpecSwap == Init /\ [][NextSwap]_vars

\* ---------------------------------------------------- the pure functions
\* side of the square the arguments of path are drawn from, less one
PathSide == 5
PathCoords == {Vec(x, y) : x \in 0..PathSide, y \in 0..PathSide}
UnitArgs == {Vec(x, y) : x \in -2..2, y \in -2..2}

\* forces around a band: strengths of both signs, bands [1,2], [1,4], [2,2], [2,4]
FnForces ==
    { [position |-> p, strength |-> s, min_distance_squared |-> lo,
       max_distance_squared |-> hi] :
        p \in {Vec(1, 1), Vec(3, 1)}, s \in {2 * Scale, -(3 * Scale)},
        lo \in {1, 2}, hi \in {2, 4} }
FnForceLists ==
    {<<f>> : f \in FnForces}
        \cup {<<f, g>> : f \in {h \in FnForces : h.position = Vec(1, 1)},
                         g \in {h \in FnForces : h.position = Vec(3, 1) /\ h.strength < 0}}
FnVel == {zeros, Vec(Scale, -Scale)}

PathCalls ==
    {[fn |-> "path", start |-> a, end |-> b, done |-> FALSE, out |-> <<>>] :
        a \in PathCoords, b \in PathCoords}
UnitCalls ==
    {[fn |-> "unit_neighbors", unit |-> u, done |-> FALSE, out |-> <<>>] :
        u \in UnitArgs}
ForceCalls ==
    {[fn |-> "apply_forces", coordinate |-> c, velocity |-> v, forces |-> fs,
      done |-> FALSE, out |-> <<>>] :
        c \in Coords, v \in FnVel, fs \in FnForceLists}

InitFn ==
    /\ cells = default_cells
    /\ pc = "fn"
    /\ cursor = Vec(0, 0)
    /\ forces = <<>>
    /\ overflow_checks \in BOOLEAN
    /\ ev = [op |-> "new"]
    /\ updates = 0
    /\ call \in PathCalls \cup UnitCalls \cup ForceCalls

CallPath ==
    /\ call.fn = "path" /\ ~call.done
    /\ call' = [call EXCEPT !.done = TRUE,
                            !.out = path(call.start, call.end, overflow_checks)]
    /\ UNCHANGED <<cells, pc, cursor, forces, overflow_checks, ev, updates>>

CallUnitNeighbors ==
    /\ call.fn = "unit_neighbors" /\ ~call.done
    /\ call' = [call EXCEPT !.done = TRUE, !.out = unit_neighbors(call.unit)]
    /\ UNCHANGED <<cells, pc, cursor, forces, overflow_checks, ev, updates>>

\* the force block of update_cell: gravity, then the loop over the forces
CallApplyForces ==
    /\ call.fn = "apply_forces" /\ ~call.done
    /\ call' = [call EXCEPT !.done = TRUE,
                            !.out = apply_forces(call.coordinate,
                                                 VAdd(call.velocity, GRAVITY),
                                                 call.forces, 1)]
    /\ UNCHANGED <<cells, pc, cursor, forces, overflow_checks, ev, updates>>

NextFn == CallPath \/ CallUnitNeighbors \/ CallApplyForces

SpecFn == InitFn /\ [][NextFn]_vars

\* --------------------------------------------------------------- settling
\* a world holding one particle at rest, stepped again and again without
\* forces; call keeps the cell the particle started in
InitSettle ==
    /\ \E c \in Coords :
           /\ cells = set_cell(default_cells, c, Sand(zeros)).cells
           /\ call = [fn |-> "settle", start |-> c]
    /\ pc = "idle"
    /\ cursor = Vec(0, 0)
    /\ forces = <<>>
    /\ overflow_checks \in BOOLEAN
    /\ ev = [op |-> "new"]
    /\ updates = 0

\* World::update(&vec![]) is entered once more
UpdateAgain ==
    /\ pc = "idle"
    /\ pc' = "update"
    /\ cursor' = Vec(0, 0)
    /\ forces' = <<>>
    /\ ev' = [op |-> "update", pre |-> cells, upd |-> no_updates]
    /\ UNCHANGED <<cells, overflow_checks, updates, call>>

NextSettle ==
    \/ UpdateAgain
    \/ \E coin \in BOOLEAN : UpdateCell(coin)

\* the loops of World::update reach their next cell: a step of a running
\* sweep that does not panic moves the cursor on
SweepAdvance == pc = "update" /\ cursor' = next_cursor(cursor)

\* the caller keeps calling update (the redraw of main.rs comes again and
\* again) and every call runs its loops to the end (update_cell returns:
\* its loops are bounded); a sweep in progress is what enables SweepAdvance
SpecSettle ==
    /\ InitSettle
    /\ [][NextSettle]_vars
    /\ WF_vars(UpdateAgain)
    /\ WF_cursor(SweepAdvance)

\* ----------------------------------------------------------------- claims
UnitDirs == {u \in UnitArgs : MaxI(AbsI(u.x), AbsI(u.y)) = 1}
\* the two unit directions next to u, one on either side of it
Adjacent(u) == {d \in UnitDirs : AbsI(d.x - u.x) + AbsI(d.y - u.y) = 1}
MirrorX(u) == Vec(-u.x, u.y)
MirrorY(u) == Vec(u.x, -u.y)
Range(q) == {q[i] : i \in DOMAIN q}

\* C1: an update_cell call leaves the number of Sand cells as it found it,
\* whatever the walk did (arrived, left the grid, was redirected or zeroed),
\* so a whole update call and any sequence of them conserve the particles.
C1_Conservation ==
    ev.op = "update_cell" => SandCount(cells) = SandCount(ev.pre)

\* a walk aimed past the grid's edge, blocked by the other particle and
\* redirected into a neighbour
C1_Witness ==
    /\ ev.op = "update_cell"
    /\ ev.r.how = "redirected"
    /\ ~in_bounds(ev.r.destination)
    /\ SandCount(cells) >= 2

\* C2: World::update never panics, whatever the grid holds and however large
\* the velocities are.
C2_NeverPanics == pc # "panic"

\* C4: for each of the 8 unit directions unit_neighbors returns two distinct
\* candidates, the two directions adjacent to the step direction, and mirroring
\* the direction in either axis mirrors the candidate set.
C4_UnitNeighborsSymmetric ==
    (call.fn = "unit_neighbors" /\ call.done /\ call.unit \in UnitDirs) =>
        /\ Len(call.out) = 2
        /\ call.out[1] # call.out[2]
        /\ Range(call.out) = Adjacent(call.unit)
        /\ {MirrorX(d) : d \in Range(call.out)}
               = Range(unit_neighbors(MirrorX(call.unit)))
        /\ {MirrorY(d) : d \in Range(call.out)}
               = Range(unit_neighbors(MirrorY(call.unit)))

\* C5: a particle with zero velocity, no force in range, a particle directly
\* below and both diagonal-below cells out of bounds or not Air when it is
\* visited: its update_cell leaves the whole grid as it was, the particle in
\* place with velocity exactly (0,0); so a further update finds it the same.
NoForceInRange(fs, c) ==
    \A k \in DOMAIN fs :
        LET d2 == magnitude_squared(VSub(fs[k].position, c))
        IN  d2 < fs[k].min_distance_squared \/ d2 > fs[k].max_distance_squared
NotAirOrOutside(cs, x, y) ==
    x < 0 \/ x >= WORLD_SIZE \/ cs[y][x].tag # "Air"
AtRest(cs, c, fs) ==
    /\ cs[c.y][c.x] = Sand(zeros)
    /\ NoForceInRange(fs, c)
    /\ c.y >= 1
    /\ cs[c.y - 1][c.x].tag = "Sand"
    /\ NotAirOrOutside(cs, c.x - 1, c.y - 1)
    /\ NotAirOrOutside(cs, c.x + 1, c.y - 1)

C5_RestState ==
    (ev.op = "update_cell" /\ AtRest(ev.pre, ev.coordinate, forces)) =>
        /\ pc # "panic"
        /\ cells[ev.coordinate.y][ev.coordinate.x] = Sand(zeros)
        /\ cells = ev.pre

\* the particle rested through the second update call as well
C5_Witness ==
    /\ ev.op = "update_cell"
    /\ AtRest(ev.pre, ev.coordinate, forces)
    /\ updates = 2
    /\ ev.r.how = "zeroed"

\* C6: path(a, a) is empty, and for a # b in the grid path(a, b) has
\* max(|dx|, |dy|) elements, does not contain a, and ends in b.
C6_PathLength ==
    (call.fn = "path" /\ call.done) =>
        LET a == call.start
            b == call.end
            steps == call.out.steps
        IN  /\ ~call.out.panic
            /\ (a = b) => steps = <<>>
            /\ (a # b) =>
                  /\ Len(steps) = MaxI(AbsI(b.x - a.x), AbsI(b.y - a.y))
                  /\ \A i \in DOMAIN steps : steps[i] # a
                  /\ steps[Len(steps)] = b

\* an oblique path, four cells long
C6_Witness ==
    /\ call.fn = "path" /\ call.done
    /\ call.start = Vec(4, 1) /\ call.end = Vec(0, 3)
    /\ Len(call.out.steps) = 4
    /\ call.out.steps[4] = Vec(0, 3)

\* C7: on a straight line (|dx| = |dy|, or dx = 0, or dy = 0) the i-th element
\* of path(a, b) is a + i * (sign dx, sign dy), in each of the 8 directions.
C7_StraightExact ==
    (call.fn = "path" /\ call.done) =>
        LET a == call.start
            dx == call.end.x - a.x
            dy == call.end.y - a.y
            steps == call.out.steps
        IN  (AbsI(dx) = AbsI(dy) \/ dx = 0 \/ dy = 0) =>
                /\ Len(steps) = MaxI(AbsI(dx), AbsI(dy))
                /\ \A i \in DOMAIN steps :
                      steps[i] = Vec(a.x + i * SignI(dx), a.y + i * SignI(dy))

\* path((0,0),(3,3)) = [(1,1),(2,2),(3,3)]
C7_Witness ==
    /\ call.fn = "path" /\ call.done
    /\ call.start = Vec(0, 0) /\ call.end = Vec(3, 3)
    /\ call.out.steps = <<Vec(1, 1), Vec(2, 2), Vec(3, 3)>>

\* C8: a force adds its push to the velocity exactly when its squared distance
\* d2 from the particle's cell has min <= d2 <= max, both ends included; one
\* with d2 < min or d2 > max leaves the velocity as gravity and the other
\* forces made it.
InBand(f, c) ==
    LET d2 == magnitude_squared(VSub(f.position, c))
    IN  f.min_distance_squared <= d2 /\ d2 <= f.max_distance_squared
PushIfInBand(f, c) == IF InBand(f, c) THEN force_push(f, c) ELSE zeros
RECURSIVE SumOfPushes(_, _, _)
SumOfPushes(fs, c, k) ==
    IF k > Len(fs) THEN zeros
    ELSE VAdd(PushIfInBand(fs[k], c), SumOfPushes(fs, c, k + 1))

C8_ForceBand ==
    (call.fn = "apply_forces" /\ call.done) =>
        call.out = VAdd(VAdd(call.velocity, GRAVITY),
                        SumOfPushes(call.forces, call.coordinate, 1))

\* a single force at exactly max_distance_squared from the particle moves it
C8_Witness ==
    /\ call.fn = "apply_forces" /\ call.done
    /\ Len(call.forces) = 1
    /\ magnitude_squared(VSub(call.forces[1].position, call.coordinate))
           = call.forces[1].max_distance_squared
    /\ call.out # VAdd(call.velocity, GRAVITY)

\* C9: pixels returns WORLD_SIZE * WORLD_SIZE * 4 bytes, row-major without
\* padding: the 4 bytes at offset (y * WORLD_SIZE + x) * 4 are the colour of
\* the tag of cell (x, y), whatever its velocity; with a single particle the
\* buffer differs from the all-Air buffer only in that particle's 4 bytes.
ColourOf(tag) == IF tag = "Air" THEN <<0, 0, 255, 255>> ELSE <<255, 255, 0, 255>>
OffsetOf(c) == ((c.y * WORLD_SIZE) + c.x) * 4
AirByte(k) == ColourOf("Air")[((k - 1) % 4) + 1]

C9_Pixels ==
    ev.op = "pixels" =>
        /\ cells = ev.pre
        /\ Len(ev.ret) = WORLD_SIZE * WORLD_SIZE * 4
        /\ \A c \in Coords :
              SubSeq(ev.ret, OffsetOf(c) + 1, OffsetOf(c) + 4)
                  = ColourOf(ev.pre[c.y][c.x].tag)
        /\ \A c \in Coords :
              SandCoords(ev.pre) = {c} =>
                  {k \in DOMAIN ev.ret : ev.ret[k] # AirByte(k)}
                      \subseteq (OffsetOf(c) + 1)..(OffsetOf(c) + 4)

\* the only particle is at (2,1), off the diagonal, and moving
C9_Witness ==
    /\ ev.op = "pixels"
    /\ SandCoords(ev.pre) = {Vec(2, 1)}
    /\ ev.pre[1][2].v # zeros
    /\ {k \in DOMAIN ev.ret : ev.ret[k] # AirByte(k)}
           = {OffsetOf(Vec(2, 1)) + 1, OffsetOf(Vec(2, 1)) + 2, OffsetOf(Vec(2, 1)) + 3}

\* C10: get_cell never panics and never changes the grid; it returns None
\* exactly when x >= WORLD_SIZE or y >= WORLD_SIZE, which is exactly when
\* in_bounds is false, and otherwise the cell's state.
C10_GetCell ==
    ev.op = "get_cell" =>
        LET c == ev.coordinate
        IN  /\ pc # "panic"
            /\ cells = ev.pre
            /\ (ev.ret = None) <=> (c.x >= WORLD_SIZE \/ c.y >= WORLD_SIZE)
            /\ (ev.ret = None) <=> ~in_bounds(c)
            /\ in_bounds(c) => ev.ret = Some(ev.pre[c.y][c.x])

\* a read just past the edge of a grid that holds a particle
C10_Witness ==
    /\ ev.op = "get_cell"
    /\ ev.coordinate = Vec(WORLD_SIZE, 0)
    /\ ev.ret = None
    /\ SandCount(cells) > 0

\* C11: swap_cells(a, b) with both coordinates in bounds exchanges the two
\* cells and leaves every other cell as it was; with either coordinate out of
\* bounds it leaves the grid as it was and does not panic; a cell swapped with
\* itself, and the same pair swapped a second time, give the grid back.
C11_SwapCells ==
    ev.op = "swap_cells" =>
        LET a == ev.a
            b == ev.b
        IN  /\ ~ev.panic
            /\ pc # "panic"
            /\ (in_bounds(a) /\ in_bounds(b)) =>
                  /\ cells[a.y][a.x] = ev.pre[b.y][b.x]
                  /\ cells[b.y][b.x] = ev.pre[a.y][a.x]
                  /\ \A c \in Coords \ {a, b} : cells[c.y][c.x] = ev.pre[c.y][c.x]
            /\ (~in_bounds(a) \/ ~in_bounds(b)) => cells = ev.pre
            /\ (a = b) => cells = ev.pre
            /\ ev.again => cells = ev.before

\* two different particles exchanged, and exchanged back by the second call
C11_Witness ==
    /\ ev.op = "swap_cells"
    /\ ev.again
    /\ ev.a = Vec(0, 0) /\ ev.b = Vec(WORLD_SIZE - 1, WORLD_SIZE - 1)
    /\ ev.pre[0][0].tag = "Sand"
    /\ ev.before[0][0].tag = "Sand"
    /\ ev.pre[0][0] # ev.before[0][0]
    /\ cells = ev.before

\* C12: a driver tick writes a particle at the spawn coordinate
\* (WORLD_SIZE/2, WORLD_SIZE-1) only if that cell reads Air, and changes no
\* other cell before it calls update; so it never overwrites a particle, and
\* at every step of a run of ticks the number of particles does not decrease
\* and only the spawn of a tick raises it, by one.
C12_Spawn ==
    [][ /\ SandCount(cells') >= SandCount(cells)
        /\ (ev'.op = "tick") =>
              /\ pc' = "update"
              /\ ev'.pre = cells
              /\ ev'.spawned <=> (cells[spawn_coordinate.y][spawn_coordinate.x] = Air)
              /\ ev'.spawned =>
                    /\ cells'[spawn_coordinate.y][spawn_coordinate.x].tag = "Sand"
                    /\ SandCount(cells') = SandCount(cells) + 1
              /\ ~ev'.spawned => cells' = cells
              /\ \A c \in Coords \ {spawn_coordinate} :
                    cells'[c.y][c.x] = cells[c.y][c.x]
        /\ (ev'.op = "update_cell") => SandCount(cells') = SandCount(cells)
      ]_vars

\* the second tick of a run found the spawn cell occupied by a moving
\* particle and left it alone
C12_Witness ==
    /\ ev.op = "tick"
    /\ updates = 2
    /\ ~ev.spawned
    /\ ev.pre[spawn_coordinate.y][spawn_coordinate.x].tag = "Sand"
    /\ ev.pre[spawn_coordinate.y][spawn_coordinate.x].v # zeros
    /\ cells = ev.pre

\* C13: every set_cell call of an update_cell is given a coordinate of the
\* grid: first the visited cell, which holds the particle, then pairs written
\* inside swap_cells after both cells were read, and last, when the walk was
\* blocked and found no candidate, the cell the particle is in.  When the path
\* leaves the grid every later path cell is outside too, so the walk is not
\* blocked after that, and the particle ends on the last path cell inside
\* the grid (its own cell when the first path cell is outside).
FirstOutside(steps) ==
    IF \A i \in DOMAIN steps : in_bounds(steps[i]) THEN 0
    ELSE CHOOSE i \in DOMAIN steps :
             /\ ~in_bounds(steps[i])
             /\ \A j \in 1..(i - 1) : in_bounds(steps[j])

C13_SetCellInBounds ==
    (ev.op = "update_cell" /\ ev.cell.tag = "Sand") =>
        LET r == ev.r
            k == FirstOutside(r.steps)
            last == IF k = 1 THEN ev.coordinate ELSE r.steps[k - 1]
            swaps == Len(r.writes) - 1 - (IF r.how = "zeroed" THEN 1 ELSE 0)
        IN  /\ \A j \in DOMAIN r.writes : in_bounds(r.writes[j])
            /\ r.writes[1] = ev.coordinate
            /\ swaps % 2 = 0
            /\ (r.how = "zeroed") =>
                  /\ r.writes[Len(r.writes)] = r.at
                  /\ cells[r.at.y][r.at.x] = Sand(zeros)
            /\ (k > 0) =>
                  /\ \A j \in k..Len(r.steps) : ~in_bounds(r.steps[j])
                  /\ r.blocked_at < k
                  /\ (r.how = "arrived") =>
                        /\ ~in_bounds(r.at)
                        /\ cells[last.y][last.x] = Sand(r.velocity)
                        /\ SandCount(cells) = SandCount(ev.pre)

\* a walk that entered one cell, then left the grid over its upper edge while
\* another particle lay on the grid
C13_Witness ==
    /\ ev.op = "update_cell" /\ ev.cell.tag = "Sand"
    /\ ev.r.how = "arrived"
    /\ FirstOutside(ev.r.steps) = 2
    /\ ev.r.steps[2].y = WORLD_SIZE
    /\ cells[ev.r.steps[1].y][ev.r.steps[1].x] = Sand(ev.r.velocity)
    /\ cells[ev.coordinate.y][ev.coordinate.x] = Air
    /\ SandCount(cells) >= 2

\* the path holds no particle when the update starts
PathClear(cs, steps) ==
    \A i \in DOMAIN steps :
        ~(get_cell(cs, steps[i]).some /\ get_cell(cs, steps[i]).val.tag = "Sand")
Expected(coordinate, cell, fs) ==
    destination_of(coordinate, updated_velocity(coordinate, cell.v, fs))

\* C14, as claimed: for every particle and velocity, when no path cell holds
\* another particle and update_cell returns, the particle is at destination
\* with its updated velocity and its starting cell is Air.
C14_ArrivesAlways ==
    (/\ ev.op = "update_cell" /\ ev.cell.tag = "Sand"
     /\ ~ev.r.panic
     /\ PathClear(ev.pre, ev.r.steps)) =>
        /\ get_cell(cells, ev.r.destination) = Some(Sand(ev.r.velocity))
        /\ cells[ev.coordinate.y][ev.coordinate.x] = Air

\* C14, amended: when the destination is a cell of the grid, no path cell
\* holds another particle and update_cell returns, the particle is at
\* destination = floor(coordinate + updated velocity) clamped at 0, with its
\* updated velocity after gravity, forces, friction and clamping; its
\* starting cell is Air unless the destination is that cell; no other cell
\* changes.
C14_Arrives ==
    (/\ ev.op = "update_cell" /\ ev.cell.tag = "Sand"
     /\ ~ev.r.panic
     /\ in_bounds(ev.r.destination)
     /\ PathClear(ev.pre, ev.r.steps)) =>
        LET d == ev.r.destination
            c == ev.coordinate
        IN  /\ d = Expected(c, ev.cell, forces).destination
            /\ ev.r.velocity = Expected(c, ev.cell, forces).velocity
            /\ cells[d.y][d.x] = Sand(ev.r.velocity)
            /\ (d # c) => cells[c.y][c.x] = Air
            /\ (d # c) <=> (ev.r.how = "arrived")
            /\ (d = c) <=> (ev.r.how = "stayed")
            /\ \A o \in Coords \ {c, d} : cells[o.y][o.x] = ev.pre[o.y][o.x]

\* a particle crossed a free cell and arrived two cells away, under a force,
\* with another particle on the grid
C14_Witness ==
    /\ ev.op = "update_cell" /\ ev.cell.tag = "Sand"
    /\ ev.r.how = "arrived"
    /\ in_bounds(ev.r.destination)
    /\ Len(ev.r.steps) = 2
    /\ forces # <<>>
    /\ SandCount(cells) >= 2
    /\ cells[ev.r.destination.y][ev.r.destination.x] = Sand(ev.r.velocity)
    /\ ev.r.velocity # zeros

\* the walk's current coordinate when it met the occupied path cell, and the
\* grid at that moment: the particle, with its updated velocity, moved there
WalkCoord(e) ==
    IF e.r.blocked_at = 1 THEN e.coordinate ELSE e.r.steps[e.r.blocked_at - 1]
Moment(e) ==
    [y \in Index |-> [x \in Index |->
        IF Vec(x, y) = WalkCoord(e) THEN Sand(e.r.velocity)
        ELSE IF Vec(x, y) = e.coordinate THEN Air
        ELSE e.pre[y][x]]]
CandFree(cs, c) == c.x < WORLD_SIZE /\ c.y < WORLD_SIZE /\ cs[c.y][c.x] = Air
FreeCands(e) ==
    {k \in DOMAIN e.r.candidates : CandFree(Moment(e), e.r.candidates[k])}
Blocked(e) ==
    /\ e.op = "update_cell"
    /\ e.cell.tag = "Sand"
    /\ e.r.blocked_at > 0

\* C15: a walk that meets an occupied path cell while neither candidate
\* neighbour of its current coordinate is in bounds and Air ends with the
\* particle at that coordinate (the last path cell entered, or the start cell)
\* with velocity (0,0); nothing else on the grid changes and the cells
\* entered are the path cells before the occupied one, no later one.
C15_Zeroed ==
    (Blocked(ev) /\ FreeCands(ev) = {}) =>
        LET at == WalkCoord(ev)
        IN  /\ ~ev.r.panic
            /\ ev.r.how = "zeroed"
            /\ ev.r.at = at
            /\ cells = [Moment(ev) EXCEPT ![at.y][at.x] = Sand(zeros)]
            /\ ev.r.entered = SubSeq(ev.r.steps, 1, ev.r.blocked_at - 1)

\* blocked at the second path cell after entering the first, with a velocity
\* that was not zero, and stopped there
C15_Witness ==
    /\ Blocked(ev) /\ FreeCands(ev) = {}
    /\ ev.r.blocked_at = 2
    /\ Len(ev.r.candidates) = 2
    /\ ev.r.velocity # zeros
    /\ ev.r.at = ev.r.steps[1]
    /\ cells[ev.r.at.y][ev.r.at.x] = Sand(zeros)
    /\ cells[ev.coordinate.y][ev.coordinate.x] = Air

\* the two directions next to the step direction, as cells next to the
\* walk's current coordinate, and those of them that are in bounds and Air
AdjacentCells(e) ==
    {[x |-> WalkCoord(e).x + d.x, y |-> WalkCoord(e).y + d.y] : d \in Adjacent(e.r.unit)}
FreeAdjacent(e) ==
    {c \in AdjacentCells(e) : c.x >= 0 /\ c.y >= 0 /\ CandFree(Moment(e), c)}

\* C16: a walk that meets an occupied path cell while one or both of the two
\* candidate neighbours of its current coordinate (the cells in the two
\* directions adjacent to the step direction) are in bounds and Air ends with
\* the particle in such a neighbour, the first in the coin's order when both
\* are free, whichever way the coin fell when one is; the particle keeps its
\* updated velocity, the cell it left is Air and nothing else changes.
C16_Redirected ==
    (Blocked(ev) /\ FreeAdjacent(ev) # {}) =>
        LET from == WalkCoord(ev)
            to == ev.r.at
        IN  /\ ~ev.r.panic
            /\ ev.r.how = "redirected"
            /\ to \in FreeAdjacent(ev)
            /\ (Cardinality(FreeAdjacent(ev)) = 2) => to = ev.r.candidates[1]
            /\ cells = [Moment(ev) EXCEPT ![from.y][from.x] = Air,
                                          ![to.y][to.x] = Sand(ev.r.velocity)]
            /\ ev.r.entered = Append(SubSeq(ev.r.steps, 1, ev.r.blocked_at - 1), to)

\* C17: the n-th update_cell of an update call is on the n-th coordinate in
\* order of increasing y and, within a row, increasing x, and is handed the
\* cell as the grid holds it at that moment; update returns after the last
\* coordinate.  When it returns every particle was updated at least once:
\* once, plus once more for every update of its own that moved it to a
\* coordinate later in the order; moves to earlier coordinates add nothing.
C17_Sweep ==
    ev.op = "update_cell" =>
        /\ ev.nth \in 1..(WORLD_SIZE * WORLD_SIZE)
        /\ ev.coordinate = Vec((ev.nth - 1) % WORLD_SIZE, (ev.nth - 1) \div WORLD_SIZE)
        /\ ev.cell = ev.pre[ev.coordinate.y][ev.coordinate.x]
        /\ (pc = "update") <=> (~ev.r.panic /\ ev.nth < WORLD_SIZE * WORLD_SIZE)
        /\ (pc = "idle") =>
              /\ ev.nth = WORLD_SIZE * WORLD_SIZE
              /\ \A c \in Coords :
                    IF cells[c.y][c.x].tag = "Sand"
                    THEN /\ ev.upd[c].n >= 1
                         /\ ev.upd[c].n = 1 + ev.upd[c].later
                    ELSE ev.upd[c].n = 0

\* an update call returned after updating one particle twice, the first time
\* moving it to a later coordinate, and another particle once, moving it to
\* an earlier coordinate
C17_Witness ==
    /\ ev.op = "update_cell"
    /\ pc = "idle"
    /\ \E c \in Coords : ev.upd[c].n = 2 /\ ev.upd[c].later = 1
    /\ \E c \in Coords : ev.upd[c].n = 1 /\ ev.upd[c].earlier = 1

\* floor(coordinate + updated velocity) on each axis, before the clamp
Floored(e) ==
    LET uv == updated_velocity(e.coordinate, e.cell.v, forces)
    IN  [x |-> ((e.coordinate.x * Scale) + uv.x) \div Scale,
         y |-> ((e.coordinate.y * Scale) + uv.y) \div Scale,
         v |-> uv]
\* the components of a cell as path() computes them, in i32
NonNegative(c) == as_i32(c.x) >= 0 /\ as_i32(c.y) >= 0

\* the clamp itself, and the candidates
C18_Clamp ==
    (ev.op = "update_cell" /\ ev.cell.tag = "Sand") =>
        LET f == Floored(ev)
            r == ev.r
        IN  /\ (f.x < 0) => (r.destination.x = 0 /\ r.velocity.x = 0)
            /\ (f.y < 0) => (r.destination.y = 0 /\ r.velocity.y = 0)
            /\ (f.x >= 0) => r.velocity.x = f.v.x
            /\ (f.y >= 0) => r.velocity.y = f.v.y
            /\ (ev.coordinate.x = 0 /\ f.v.x < 0) =>
                  /\ r.destination.x = 0
                  /\ \A i \in DOMAIN r.steps : r.steps[i].x = 0
            /\ \A k \in DOMAIN r.candidates :
                  ~NonNegative(r.candidates[k]) =>
                      /\ ~in_bounds(r.candidates[k])
                      /\ r.at # r.candidates[k]
                      /\ \A j \in DOMAIN r.writes : r.writes[j] # r.candidates[k]

\* C18: when coordinate + updated velocity floors to a negative value on an
\* axis the destination is 0 on that axis and that velocity component, and
\* only that one, is committed as 0, so the destination and path of a
\* particle at (0, y) with leftward velocity stay in column 0; no destination
\* or path cell has a negative component; a candidate neighbour with a
\* negative component is out of bounds, never entered and never written.
C18_LowerEdge ==
    /\ C18_Clamp
    /\ (ev.op = "update_cell" /\ ev.cell.tag = "Sand") =>
          /\ NonNegative(ev.r.destination)
          /\ \A i \in DOMAIN ev.r.steps : NonNegative(ev.r.steps[i])

\* the first path cell that holds a particle when the update starts, or one
\* past the end of the path
FirstOccupied(cs, steps) ==
    IF PathClear(cs, steps) THEN Len(steps) + 1
    ELSE CHOOSE i \in DOMAIN steps :
             /\ ~PathClear(cs, SubSeq(steps, i, i))
             /\ PathClear(cs, SubSeq(steps, 1, i - 1))

\* C19: the cells a particle enters during its update are cells of the grid
\* that held Air; they are the path cells, in path order, before the first
\* occupied path cell, followed at most by one candidate neighbour; every
\* other particle is in the same cell with the same velocity afterwards, and
\* only the particle's starting cell and the cell it ends in change.
C19_OnlyAir ==
    (ev.op = "update_cell" /\ ev.cell.tag = "Sand") =>
        LET r == ev.r
            b == FirstOccupied(ev.pre, r.steps)
            m == Len(r.entered) - (IF r.how = "redirected" THEN 1 ELSE 0)
            end == IF r.entered = <<>> THEN ev.coordinate
                   ELSE r.entered[Len(r.entered)]
        IN  /\ \A i \in DOMAIN r.entered :
                  /\ in_bounds(r.entered[i])
                  /\ ev.pre[r.entered[i].y][r.entered[i].x] = Air
                  /\ r.entered[i] # ev.coordinate
            /\ m >= 0 /\ m < b
            /\ \A i \in 1..m : r.entered[i] = r.steps[i]
            /\ \A i \in (m + 1)..(b - 1) : ~in_bounds(r.steps[i])
            /\ r.blocked_at = (IF b <= Len(r.steps) THEN b ELSE 0)
            /\ \A c \in Coords \ {ev.coordinate} :
                  (ev.pre[c.y][c.x].tag = "Sand") => cells[c.y][c.x] = ev.pre[c.y][c.x]
            /\ \A c \in Coords \ {ev.coordinate, end} : cells[c.y][c.x] = ev.pre[c.y][c.x]
            /\ cells[end.y][end.x].tag = "Sand"
            /\ (end # ev.coordinate) => cells[ev.coordinate.y][ev.coordinate.x] = Air

\* a particle entered the first cell of its path, found the second occupied
\* and went into a free neighbour; two other particles stayed as they were
C19_Witness ==
    /\ ev.op = "update_cell" /\ ev.cell.tag = "Sand"
    /\ ev.r.how = "redirected"
    /\ ev.r.blocked_at = 2
    /\ Len(ev.r.entered) = 2
    /\ ev.r.entered[1] = ev.r.steps[1]
    /\ SandCount(cells) = 3
    /\ cells[ev.r.at.y][ev.r.at.x] = Sand(ev.r.velocity)

\* the step from p to q of a path from a to b: exactly 1 on the driving axis
\* (the one with the larger |delta|; y when they are equal), at most 1 on the
\* other, never away from b, and q inside the bounding box of a and b
UnitStep(a, b, p, q) ==
    LET x_drives == AbsI(b.x - a.x) > AbsI(b.y - a.y)
        dx == q.x - p.x
        dy == q.y - p.y
    IN  /\ IF x_drives THEN AbsI(dx) = 1 /\ AbsI(dy) <= 1
                       ELSE AbsI(dy) = 1 /\ AbsI(dx) <= 1
        /\ dx \in {0, SignI(b.x - a.x)}
        /\ dy \in {0, SignI(b.y - a.y)}
        /\ q.x >= MinI(a.x, b.x) /\ q.x <= MaxI(a.x, b.x)
        /\ q.y >= MinI(a.y, b.y) /\ q.y <= MaxI(a.y, b.y)
UnitPath(a, b, steps) ==
    \A i \in DOMAIN steps :
        UnitStep(a, b, IF i = 1 THEN a ELSE steps[i - 1], steps[i])

\* C20: the path update_cell walks, from the particle's coordinate to its
\* destination, is made of unit steps towards the destination inside the
\* bounding box of the two; and whenever the walk is blocked the vector from
\* its current coordinate to the occupied path cell is one of the 8 unit
\* directions, for which unit_neighbors returns its two candidates.
C20_UnitSteps ==
    (ev.op = "update_cell" /\ ev.cell.tag = "Sand") =>
        /\ UnitPath(ev.coordinate, ev.r.destination, ev.r.steps)
        /\ (ev.r.blocked_at > 0) =>
              /\ ev.r.unit \in UnitDirs
              /\ ev.r.unit = VSub(ev.r.steps[ev.r.blocked_at], WalkCoord(ev))
              /\ Len(ev.r.candidates) = 2

\* the only particle is in row 0 of the column it started in
AtBottom == SandCoords(cells) = {Vec(call.start.x, 0)}
\* that cell was updated in place by the update call now running or just over
UpdatedAtBottom ==
    /\ AtBottom
    /\ ev.op = "update_cell"
    /\ ev.upd[Vec(call.start.x, 0)].n >= 1
    /\ ev.upd[Vec(call.start.x, 0)].earlier = 0

\* C21: a single particle with velocity (0,0), no forces: repeated update
\* calls bring it to row 0 of its original column; it never leaves its column
\* nor moves up, once in row 0 it stays there, and every update call that
\* finds it there leaves it with velocity exactly (0,0).
C21_Settles ==
    /\ <>[]AtBottom
    /\ [][ /\ AtBottom => AtBottom'
           /\ \A c \in SandCoords(cells') :
                 /\ c.x = call.start.x
                 /\ \A o \in SandCoords(cells) : c.y <= o.y ]_vars
    /\ [](UpdatedAtBottom => cells[0][call.start.x] = Sand(zeros))
    /\ [](pc # "panic")

\* a particle that started in the top row lies in row 0 with velocity (0,0)
\* after an update call that found it there
C21_Witness ==
    /\ call.fn = "settle"
    /\ call.start.y = WORLD_SIZE - 1
    /\ pc = "idle"
    /\ UpdatedAtBottom
    /\ cells[0][call.start.x] = Sand(zeros)

====
